---- MODULE Spec2Model ----
(***************************************************************************)
(* Client side of the on-chain document signing application (src/app.py):  *)
(* the transaction pipeline of create_signing_contract and sign_document,  *)
(* the multi-call status read of get_contract_status, the per-initiator    *)
(* listing of get_user_contracts and the tab handlers that drive them,     *)
(* run against a chain (node, mempool, factory and signer contracts) that  *)
(* moves on its own between the client's calls.                            *)
(***************************************************************************)
EXTENDS Integers, Sequences, FiniteSets, TLC

(* ------------------------------ bounds -------------------------------- *)

\* Transactions the node accepts in one run.
MaxTx == 2

\* Text fields of the signer form in the session runs.
MaxSigners == 1

\* Text fields of the signer form in the runs of the signer-list computation.
MaxTyped == 3

\* Log entries of a receipt in the runs of the creation-event scan.
MaxLogs == 3

\* Contracts in the factory's index in the runs of the listing.
MaxIndex == 3

\* Largest lifecycle code a contract reports in the runs of the status mapping.
MaxCode == 8

(* ------------------------------ values -------------------------------- *)

Users == {"A", "B"}

\* A typed address keeps the letter case it was typed in: the same 20 bytes
\* have a checksum spelling and a lower-case spelling, two different strings.
Forms == {"checksum", "lower"}

Addr(w, f) == [who |-> w, form |-> f]

\* A signer text field left empty, and one holding only white space.
Empty == [who |-> "", form |-> "empty"]

Spaces == [who |-> "", form |-> "spaces"]

TypedEntries == {Empty, Spaces} \cup {Addr(w, f) : w \in Users, f \in Forms}

\* Private keys: one per user, and a malformed one.
BadKey == "bad"

EmptyKey == ""

PrivateKeys == Users \cup {BadKey}

NoFactory == "none"

FactoryAddress == "factory"

\* The one uploaded document: its fingerprint is an opaque argument here.
hash_document == "sha256(doc)"

upload_to_ipfs == "Qm(md5(doc))"

SeqsUpTo(S, n) == UNION {[1..k -> S] : k \in 0..n}

Last(s) == s[Len(s)]

IsPrefix(s, t) == Len(s) <= Len(t) /\ SubSeq(t, 1, Len(s)) = s

\* Positions of s holding x.
Occurrences(s, x) == {i \in 1..Len(s) : s[i] = x}

(* ----------------------- the signer list of tab1 ---------------------- *)

\* Account.from_key(key).address: the checksum spelling of the key's address.
KeyIsValid(key) == key \in Users

AddressOf(key) == Addr(key, "checksum")

\* list(dict.fromkeys(xs)): string equality, first occurrence kept.
RECURSIVE DedupFrom(_, _)
DedupFrom(xs, seen) ==
    IF xs = <<>> THEN <<>>
    ELSE IF Head(xs) \in seen THEN DedupFrom(Tail(xs), seen)
    ELSE <<Head(xs)>> \o DedupFrom(Tail(xs), seen \cup {Head(xs)})

fromkeys(xs) == DedupFrom(xs, {})

\* bool(s): only the empty string is false.
truthy(s) == s # Empty

\* any(st.session_state.signers)
any_signers(signers) == \E i \in 1..Len(signers) : truthy(signers[i])

\* bool(s.strip()): empty and white-space-only strings are false.
strip_truthy(s) == s \notin {Empty, Spaces}

\* [initiator_address] + [s for s in signers if s.strip()], then fromkeys.
NonBlank(signers) == SelectSeq(signers, strip_truthy)

required_signers(initiator_address, signers) ==
    fromkeys(<<initiator_address>> \o NonBlank(signers))

(* ----------------------- the creation-event scan ---------------------- *)

ContractCreated(c) == [event |-> "ContractCreated", contractAddress |-> c]

\* Logs of other events: one of the signer contract, one of a token.
OtherLog == [event |-> "DocumentSigned", contractAddress |-> 0]

TransferLog == [event |-> "Transfer", contractAddress |-> 0]

NotFound == "ValueError: Could not find ContractCreated event"

\* factory.events.ContractCreated().processLog(log) raises on a log of
\* another event.
processLog_ok(log) == log.event = "ContractCreated"

\* A variant that keeps scanning and returns the last matching log.
RECURSIVE scan_logs_last(_)
scan_logs_last(logs) ==
    IF logs = <<>> THEN <<>>
    ELSE IF scan_logs_last(Tail(logs)) # <<>> THEN scan_logs_last(Tail(logs))
    ELSE IF processLog_ok(Head(logs)) THEN <<Head(logs).contractAddress>>
    ELSE <<>>

\* for log in tx_receipt.logs: try: return decoded.args.contractAddress
\* except: continue. <<a>> is "returned a"; <<>> is "fell out of the loop",
\* where the function raises ValueError(NotFound).
RECURSIVE scan_logs(_)
scan_logs(logs) ==
    IF logs = <<>> THEN <<>>
    ELSE IF processLog_ok(Head(logs)) THEN <<Head(logs).contractAddress>>
    ELSE scan_logs(Tail(logs))

(* ------------------------- the status mapping ------------------------- *)

status_names == <<"INITIATED", "IN_PROGRESS", "COMPLETED", "CANCELLED">>

IndexError == "IndexError: list index out of range"

\* xs[i] of a Python list: positions count from 0, negative ones from the
\* end, and a position outside the list raises IndexError.
list_item(xs, i) ==
    IF 0 <= i /\ i < Len(xs) THEN xs[i + 1]
    ELSE IF -Len(xs) <= i /\ i < 0 THEN xs[Len(xs) + i + 1]
    ELSE IndexError

\* A variant whose bound check is off by one.
status_name_off_by_one(status) ==
    IF status <= Len(status_names) THEN list_item(status_names, status)
    ELSE "UNKNOWN"

\* status_names[status] if status < len(status_names) else "UNKNOWN"
status_name(status) ==
    IF status < Len(status_names) THEN list_item(status_names, status)
    ELSE "UNKNOWN"

(* ------------------------------ state --------------------------------- *)

VARIABLES
    factory_address,   \* config.factory_address, fixed for the process
    chain_txs,         \* transactions the node holds, pending or mined
    receipts,          \* receipt of every mined transaction, by hash
    contracts,         \* deployed signer contracts, by address
    pc,                \* the session's position in the running handler
    op,                \* locals of the running transaction operation
    st,                \* locals of the running get_contract_status
    ls,                \* locals of the running get_user_contracts
    result,            \* what the last finished handler showed
    last_contract      \* st.session_state.last_contract

vars == <<factory_address, chain_txs, receipts, contracts, pc, op, st, ls,
          result, last_contract>>

chain == <<chain_txs, receipts, contracts>>

\* Transaction hashes and contract addresses are positions in chain_txs: the
\* contract a creation deploys gets the number of its transaction.
TxHashes == 1..Len(chain_txs)

Pending == TxHashes \ DOMAIN receipts

Deployed == DOMAIN contracts

NoOp ==
    [kind |-> "none", private_key |-> EmptyKey, contract_address |-> 0,
     signers |-> <<>>, required_signers |-> <<>>, nonce |-> 0,
     tx_hash |-> 0, trace |-> <<>>, sends |-> 0]

NoSt ==
    [caller |-> "none", contract_address |-> 0, signatures |-> <<>>,
     is_fully_signed |-> FALSE, required_signers |-> <<>>,
     progress |-> <<0, 0>>, status |-> 0, document_hash |-> "",
     after_timeout_of |-> 0]

NoLs ==
    [user_address |-> "", contract_addresses |-> <<>>, i |-> 0,
     contracts |-> <<>>, logged |-> <<>>]

\* What a finished handler leaves on the page (kind, outcome, value, error),
\* with a record of how it got there: the call that raised and why, the
\* calls made, the submissions made, and for a listing the index it read
\* and the addresses whose failure it logged; for a status query the
\* address asked for and, when the handler that finished just before it gave
\* up a receipt wait, the hash of that transaction.
NoResult ==
    [kind |-> "none", outcome |-> "none", value |-> <<>>, error |-> "",
     step |-> "", cause |-> "", sends |-> 0, trace |-> <<>>, tx_hash |-> 0,
     contract_address |-> 0, after_timeout_of |-> 0,
     index |-> <<>>, logged |-> <<>>]

(* ------------------------------ the chain ----------------------------- *)

\* w3.eth.get_transaction_count(address): transactions of the account mined
\* so far.
get_transaction_count(who) ==
    Cardinality({t \in DOMAIN receipts : chain_txs[t].from = who})

\* The signer contract accepts signDocument from a required signer that has
\* not signed yet, while the contract is neither completed nor cancelled.
sign_accepted(c, who) ==
    /\ c \in Deployed
    /\ \E i \in 1..Len(contracts[c].required) : contracts[c].required[i] = who
    /\ \A i \in 1..Len(contracts[c].sigs) : contracts[c].sigs[i] # who
    /\ contracts[c].status \in {0, 1}

\* The contract's state after one more signature.
signed_by(c, who) ==
    LET sigs == Append(contracts[c].sigs, who)
        full == Len(sigs) = Len(contracts[c].required)
    IN  [contracts[c] EXCEPT !.sigs = sigs,
                             !.status = IF full THEN 2 ELSE 1]

\* A freshly deployed signer contract.
new_contract(tx) ==
    [initiator |-> tx.from,
     required |-> [i \in 1..Len(tx.required) |-> tx.required[i].who],
     sigs |-> <<>>, status |-> 0, document_hash |-> hash_document]

Receipt(status, logs) == [status |-> status, logs |-> logs]

\* A block includes pending transaction t. A creation deploys a contract and
\* emits ContractCreated, or runs out of gas and reverts; a signature is
\* recorded or reverts.
Mine(t) ==
    /\ t \in Pending
    /\ chain_txs[t].nonce = get_transaction_count(chain_txs[t].from)
    /\ \/ /\ chain_txs[t].kind = "create"
          /\ contracts' = [c \in Deployed \cup {t} |->
                IF c = t THEN new_contract(chain_txs[t]) ELSE contracts[c]]
          /\ receipts' = [h \in DOMAIN receipts \cup {t} |->
                IF h = t THEN Receipt(1, <<OtherLog, ContractCreated(t)>>)
                ELSE receipts[h]]
       \/ /\ chain_txs[t].kind = "create"
          /\ contracts' = contracts
          /\ receipts' = [h \in DOMAIN receipts \cup {t} |->
                IF h = t THEN Receipt(0, <<>>) ELSE receipts[h]]
       \/ /\ chain_txs[t].kind = "sign"
          /\ sign_accepted(chain_txs[t].to, chain_txs[t].from)
          /\ contracts' = [contracts EXCEPT
                ![chain_txs[t].to] = signed_by(chain_txs[t].to, chain_txs[t].from)]
          /\ receipts' = [h \in DOMAIN receipts \cup {t} |->
                IF h = t THEN Receipt(1, <<OtherLog>>) ELSE receipts[h]]
       \/ /\ chain_txs[t].kind = "sign"
          /\ ~sign_accepted(chain_txs[t].to, chain_txs[t].from)
          /\ contracts' = contracts
          /\ receipts' = [h \in DOMAIN receipts \cup {t} |->
                IF h = t THEN Receipt(0, <<>>) ELSE receipts[h]]
    /\ UNCHANGED <<factory_address, chain_txs, pc, op, st, ls, result,
                   last_contract>>

(* ----------------------- how a handler finishes ----------------------- *)

ConfigError == "ValueError: Factory address not configured"

InvalidKey == "ValueError: invalid private key"

ConnectionError == "ConnectionError"

InvalidAddress == "InvalidAddress"

SigningError == "TypeError"

RpcRejected == "ValueError: rpc error"

TimeExhausted == "TimeExhausted"

BadFunctionCallOutput == "BadFunctionCallOutput"

Done(r) ==
    /\ pc' = "idle"
    /\ result' = r
    /\ op' = NoOp
    /\ st' = NoSt
    /\ ls' = NoLs

\* except Exception as e: logger.error(...); raise -- the exception leaves
\* the function as it was raised, and the tab handler shows str(e).
reraise(exc) == exc

\* The operation with locals o ends in exception exc, raised by the last
\* call of o.trace for the reason cause.
Raised(o, exc, cause) ==
    Done([NoResult EXCEPT
             !.kind = o.kind, !.outcome = "error", !.error = reraise(exc),
             !.step = IF o.trace = <<>> THEN "config" ELSE Last(o.trace),
             !.cause = cause, !.sends = o.sends, !.trace = o.trace,
             !.tx_hash = o.tx_hash, !.contract_address = o.contract_address,
             !.after_timeout_of = st.after_timeout_of])

Returned(o, value) ==
    Done([NoResult EXCEPT
             !.kind = o.kind, !.outcome = "ok", !.value = value,
             !.sends = o.sends, !.trace = o.trace, !.tx_hash = o.tx_hash,
             !.contract_address = o.contract_address,
             !.after_timeout_of = st.after_timeout_of])

\* A form check of a tab refused the click: st.error, nothing else runs.
Refused(kind, why) ==
    Done([NoResult EXCEPT
             !.kind = kind, !.outcome = "refused", !.error = why])

Called(o, name) == [o EXCEPT !.trace = Append(@, name)]

(* ---------------- tab1 and tab2: the transaction handlers -------------- *)

\* The "Create Signing Contract" button, with the signer fields holding one
\* of the lists of typed. The form checks, the initiator's address, the
\* signer list, then the call of create_signing_contract.
CreateClickFrom(typed) ==
    /\ pc = "idle"
    /\ Len(chain_txs) < MaxTx
    /\ \E uploaded \in BOOLEAN, key \in PrivateKeys \cup {EmptyKey},
          signers \in typed \ {<<>>} :
          IF ~uploaded THEN Refused("create", "Please upload a document")
          ELSE IF key = EmptyKey
          THEN Refused("create", "Please enter your private key")
          ELSE IF ~any_signers(signers)
          THEN Refused("create", "Please add at least one signer")
          ELSE IF ~KeyIsValid(key)
          THEN Done([NoResult EXCEPT !.kind = "create", !.outcome = "error",
                        !.error = InvalidKey, !.step = "tab1",
                        !.cause = "key"])
          ELSE /\ pc' = "config"
               /\ op' = [NoOp EXCEPT
                     !.kind = "create", !.private_key = key,
                     !.signers = signers,
                     !.required_signers =
                         required_signers(AddressOf(key), signers)]
               /\ result' = NoResult
               /\ UNCHANGED <<st, ls>>
    /\ UNCHANGED <<factory_address, chain, last_contract>>

CreateClick == CreateClickFrom(SeqsUpTo(TypedEntries, MaxSigners))

\* The "Sign Document" button of tab2.
SignClick ==
    /\ pc = "idle"
    /\ Len(chain_txs) < MaxTx
    /\ \E contract_address \in Deployed \cup {0},
          key \in PrivateKeys \cup {EmptyKey} :
          IF contract_address = 0
          THEN Refused("sign", "Please enter contract address")
          ELSE IF key = EmptyKey
          THEN Refused("sign", "Please enter your private key")
          ELSE /\ pc' = "from_key"
               /\ op' = [NoOp EXCEPT
                     !.kind = "sign", !.private_key = key,
                     !.contract_address = contract_address]
               /\ result' = NoResult
               /\ UNCHANGED <<st, ls>>
    /\ UNCHANGED <<factory_address, chain, last_contract>>

\* A variant that takes any setting for a factory address.
factory_configured_always == TRUE

\* The truth value of config.factory_address.
factory_configured == factory_address # NoFactory

\* if not config.factory_address: raise ValueError(...)
CheckConfig ==
    /\ pc = "config"
    /\ IF ~factory_configured
       THEN Raised(op, ConfigError, "configuration")
       ELSE /\ pc' = "from_key"
            /\ UNCHANGED <<op, st, ls, result>>
    /\ UNCHANGED <<factory_address, chain, last_contract>>

\* account = Account.from_key(private_key)
FromKey ==
    /\ pc = "from_key"
    /\ LET o == Called(op, "from_key")
       IN  IF KeyIsValid(op.private_key)
           THEN /\ pc' = "nonce"
                /\ op' = o
                /\ UNCHANGED <<st, ls, result>>
           ELSE Raised(o, InvalidKey, "key")
    /\ UNCHANGED <<factory_address, chain, last_contract>>

\* 'nonce': w3.eth.get_transaction_count(account.address)
GetNonce ==
    /\ pc = "nonce"
    /\ LET o == Called(op, "get_transaction_count")
       IN  \/ /\ pc' = "build"
              /\ op' = [o EXCEPT !.nonce = get_transaction_count(op.private_key)]
              /\ UNCHANGED <<st, ls, result>>
           \/ Raised(o, ConnectionError, "network")
    /\ UNCHANGED <<factory_address, chain, last_contract>>

\* The library takes an address argument only in its checksum spelling.
is_checksum_address(a) == a.form = "checksum"

arguments_ok(o) ==
    \A i \in 1..Len(o.required_signers) :
        is_checksum_address(o.required_signers[i])

\* factory.functions.createSigningContract(...).build_transaction({...}) and
\* contract.functions.signDocument(metadata).build_transaction({...}): the
\* library checks the arguments against the ABI, then fills in the chain id
\* from the node.
BuildTransaction ==
    /\ pc = "build"
    /\ LET o == Called(op, "build_transaction")
       IN  \/ /\ arguments_ok(op)
              /\ pc' = "sign"
              /\ op' = o
              /\ UNCHANGED <<st, ls, result>>
           \/ /\ ~arguments_ok(op)
              /\ Raised(o, InvalidAddress, "arguments")
           \/ Raised(o, ConnectionError, "network")
    /\ UNCHANGED <<factory_address, chain, last_contract>>

\* A variant that still hands the transaction to the node before raising.
on_sign_error_send(o) ==
    Raised([Called(o, "send_raw_transaction") EXCEPT !.sends = @ + 1],
           SigningError, "signing")

\* sign_transaction raises inside the try: the exception leaves the
\* function before send_raw_transaction is reached.
on_sign_error(o) == Raised(o, SigningError, "signing")

\* signed_txn = w3.eth.account.sign_transaction(txn, private_key)
SignTransaction ==
    /\ pc = "sign"
    /\ LET o == Called(op, "sign_transaction")
       IN  \/ /\ pc' = "send"
              /\ op' = o
              /\ UNCHANGED <<st, ls, result>>
           \/ on_sign_error(o)
    /\ UNCHANGED <<factory_address, chain, last_contract>>

\* The transaction the operation has built and signed.
txn(o) ==
    [from |-> o.private_key, nonce |-> o.nonce, kind |-> o.kind,
     to |-> o.contract_address, required |-> o.required_signers]

\* The node takes a transaction whose nonce is the account's next one and
\* is not held by a pending transaction of the account (same gas price: no
\* replacement).
node_accepts(tx) ==
    /\ tx.nonce = get_transaction_count(tx.from)
    /\ \A t \in Pending :
          ~(chain_txs[t].from = tx.from /\ chain_txs[t].nonce = tx.nonce)

\* A variant that submits the transaction again before giving up.
on_timeout_resend(o) ==
    /\ Raised([o EXCEPT !.sends = @ + 1], TimeExhausted, "timeout")
    /\ chain_txs' = Append(chain_txs, txn(o))
    /\ UNCHANGED <<receipts, contracts>>

\* What an expired receipt wait does with the operation o: the exception
\* leaves the function.
on_timeout(o) == Raised(o, TimeExhausted, "timeout") /\ UNCHANGED chain

\* A variant that sends once more when the connection fails.
on_broadcast_error_retry(o) ==
    Raised([Called(o, "send_raw_transaction") EXCEPT !.sends = @ + 1],
           ConnectionError, "network")

\* send_raw_transaction raises inside the try: the exception leaves the
\* function, nothing is sent again.
on_broadcast_error(o) == Raised(o, ConnectionError, "network")

\* tx_hash = w3.eth.send_raw_transaction(signed_txn.rawTransaction): the
\* node takes it and answers; the node refuses it; the connection fails
\* before the node has it; the connection fails after the node took it.
SendRawTransaction ==
    /\ pc = "send"
    /\ LET o == [Called(op, "send_raw_transaction") EXCEPT !.sends = @ + 1]
       IN  \/ /\ node_accepts(txn(op))
              /\ chain_txs' = Append(chain_txs, txn(op))
              /\ pc' = "wait"
              /\ op' = [o EXCEPT !.tx_hash = Len(chain_txs) + 1]
              /\ UNCHANGED <<st, ls, result>>
           \/ /\ ~node_accepts(txn(op))
              /\ Raised(o, RpcRejected, "rejected")
              /\ UNCHANGED chain_txs
           \/ /\ on_broadcast_error(o)
              /\ UNCHANGED chain_txs
           \/ /\ node_accepts(txn(op))
              /\ chain_txs' = Append(chain_txs, txn(op))
              /\ on_broadcast_error(o)
    /\ UNCHANGED <<factory_address, receipts, contracts, last_contract>>

\* w3.eth.wait_for_transaction_receipt(tx_hash): the receipt once the
\* transaction is mined, TimeExhausted when the wait expires first, or the
\* error of a failed poll. sign_document then returns tx_hash.hex().
WaitForReceipt ==
    /\ pc = "wait"
    /\ LET o == Called(op, "wait_for_transaction_receipt")
       IN  \/ /\ op.tx_hash \in DOMAIN receipts
              /\ IF op.kind = "create"
                 THEN /\ pc' = "decode"
                      /\ op' = o
                      /\ UNCHANGED <<st, ls, result>>
                 ELSE Returned(o, <<op.tx_hash>>)
              /\ UNCHANGED chain
           \/ /\ op.tx_hash \in Pending
              /\ on_timeout(o)
           \/ /\ Raised(o, ConnectionError, "network")
              /\ UNCHANGED chain
    /\ UNCHANGED <<factory_address, last_contract>>

\* A variant in which tab1 forgets the remembered contract when no creation
\* event is found.
on_event_missing_forget(o) ==
    /\ Raised(o, NotFound, "no event")
    /\ last_contract' = 0

\* raise ValueError("Contract address not found in logs"): tab1's except
\* shows the message; the assignment of last_contract is not reached.
on_event_missing(o) ==
    /\ Raised(o, NotFound, "no event")
    /\ UNCHANGED last_contract

\* The scan of tx_receipt.logs; on success tab1 remembers the address in
\* st.session_state.last_contract.
DecodeLogs ==
    /\ pc = "decode"
    /\ LET o == Called(op, "processLog")
           found == scan_logs(receipts[op.tx_hash].logs)
       IN  IF found = <<>>
           THEN on_event_missing(o)
           ELSE /\ Returned(o, found)
                /\ last_contract' = found[1]
    /\ UNCHANGED <<factory_address, chain>>

(* --------------------- get_contract_status and tab3 ------------------- *)

\* The getters of a deployed signer contract.
getSignatures(c) == contracts[c].sigs

isFullySigned(c) == Len(contracts[c].sigs) = Len(contracts[c].required)

getRequiredSigners(c) == contracts[c].required

getSigningProgress(c) == <<Len(contracts[c].sigs), Len(contracts[c].required)>>

\* The dictionary get_contract_status returns.
snapshot(s, ipfs_cid) ==
    [signatures |-> s.signatures,
     is_fully_signed |-> s.is_fully_signed,
     required_signers |-> s.required_signers,
     signed_count |-> s.progress[1],
     total_signers |-> s.progress[2],
     status |-> status_name(s.status),
     document_hash |-> s.document_hash,
     ipfs_cid |-> ipfs_cid]

\* The "Check Status" button of tab3.
StatusClick ==
    /\ pc = "idle"
    /\ \E contract_address \in 1..MaxTx :
          /\ pc' = "getSignatures"
          /\ op' = [NoOp EXCEPT !.kind = "status",
                                !.contract_address = contract_address]
          /\ st' = [NoSt EXCEPT
                !.caller = "tab3", !.contract_address = contract_address,
                !.after_timeout_of =
                    IF result.cause = "timeout" THEN result.tx_hash ELSE 0]
          /\ result' = NoResult
          /\ UNCHANGED ls
    /\ UNCHANGED <<factory_address, chain, last_contract>>

\* The listing goes on to its next address, or returns its list.
list_continue(o, l) ==
    IF l.i < Len(l.contract_addresses)
    THEN /\ pc' = "getContractInfo"
         /\ op' = o
         /\ ls' = [l EXCEPT !.i = @ + 1]
         /\ st' = NoSt
         /\ UNCHANGED result
    ELSE Done([NoResult EXCEPT
                  !.kind = "list", !.outcome = "ok", !.value = l.contracts,
                  !.trace = o.trace, !.index = l.contract_addresses,
                  !.logged = l.logged])

\* A variant that gives up the loop at the first failing address.
on_enrich_error_break(o) ==
    Done([NoResult EXCEPT
             !.kind = "list", !.outcome = "ok", !.value = ls.contracts,
             !.trace = o.trace, !.index = ls.contract_addresses,
             !.logged = Append(ls.logged, ls.contract_addresses[ls.i])])

\* except Exception as e: logger.warning(...); continue
on_enrich_error(o) ==
    list_continue(o, [ls EXCEPT
        !.logged = Append(@, ls.contract_addresses[ls.i])])

\* get_contract_status raises exc: logged and raised again, to tab3 which
\* shows it, or to the loop of get_user_contracts.
status_raised(o, exc, cause) ==
    IF st.caller = "tab3" THEN Raised(o, exc, cause) ELSE on_enrich_error(o)

\* One getter call of get_contract_status at position at: the value read
\* makes the locals s, or the call raises.
read_step(at, name, nxt, s) ==
    /\ pc = at
    /\ LET o == Called(op, name)
       IN  \/ /\ st.contract_address \in Deployed
              /\ pc' = nxt
              /\ op' = o
              /\ st' = s
              /\ UNCHANGED <<ls, result>>
           \/ /\ st.contract_address \notin Deployed
              /\ status_raised(o, BadFunctionCallOutput, "no contract")
           \/ status_raised(o, ConnectionError, "network")
    /\ UNCHANGED <<factory_address, chain, last_contract>>

ReadSignatures ==
    read_step("getSignatures", "getSignatures", "isFullySigned",
        [st EXCEPT !.signatures = getSignatures(st.contract_address)])

ReadIsFullySigned ==
    read_step("isFullySigned", "isFullySigned", "getRequiredSigners",
        [st EXCEPT !.is_fully_signed = isFullySigned(st.contract_address)])

ReadRequiredSigners ==
    read_step("getRequiredSigners", "getRequiredSigners", "getSigningProgress",
        [st EXCEPT !.required_signers = getRequiredSigners(st.contract_address)])

ReadSigningProgress ==
    read_step("getSigningProgress", "getSigningProgress", "status",
        [st EXCEPT !.progress = getSigningProgress(st.contract_address)])

ReadStatus ==
    read_step("status", "status", "documentHash",
        [st EXCEPT !.status = contracts[st.contract_address].status])

ReadDocumentHash ==
    read_step("documentHash", "documentHash", "ipfsCid",
        [st EXCEPT !.document_hash = contracts[st.contract_address].document_hash])

\* One entry of the list of get_user_contracts.
entry(address, info) ==
    [address |-> address, status |-> info.status,
     progress |-> <<info.signed_count, info.total_signers>>]

\* The last getter call, ipfsCid, and the return of the dictionary: to tab3,
\* or to the loop of get_user_contracts, which appends its entry. Building
\* the dictionary evaluates the status mapping, inside the same try.
ReadIpfsCid ==
    /\ pc = "ipfsCid"
    /\ LET o == Called(op, "ipfsCid")
           info == snapshot(st, upload_to_ipfs)
       IN  \/ /\ st.contract_address \in Deployed
              /\ IF info.status = IndexError
                 THEN status_raised(o, IndexError, "index")
                 ELSE IF st.caller = "tab3"
                 THEN Returned(o, <<info>>)
                 ELSE list_continue(o, [ls EXCEPT !.contracts =
                         Append(@, entry(st.contract_address, info))])
           \/ /\ st.contract_address \notin Deployed
              /\ status_raised(o, BadFunctionCallOutput, "no contract")
           \/ status_raised(o, ConnectionError, "network")
    /\ UNCHANGED <<factory_address, chain, last_contract>>

(* ---------------------- get_user_contracts and tab4 ------------------- *)

\* The factory's index of an initiator: its contracts in creation order.
RECURSIVE ascending(_)
ascending(S) ==
    IF S = {} THEN <<>>
    ELSE LET m == CHOOSE x \in S : \A y \in S : x <= y
         IN  <<m>> \o ascending(S \ {m})

getContractsByInitiator(who) ==
    ascending({c \in Deployed : contracts[c].initiator = who})

\* The "Load My Contracts" button of tab4.
ListClick ==
    /\ pc = "idle"
    /\ \E user_address \in Users :
          /\ pc' = "list_config"
          /\ op' = [NoOp EXCEPT !.kind = "list"]
          /\ ls' = [NoLs EXCEPT !.user_address = user_address]
          /\ result' = NoResult
          /\ UNCHANGED st
    /\ UNCHANGED <<factory_address, chain, last_contract>>

\* if not config.factory_address: return []
ListConfig ==
    /\ pc = "list_config"
    /\ IF ~factory_configured
       THEN Returned(op, <<>>)
       ELSE /\ pc' = "getContractsByInitiator"
            /\ UNCHANGED <<op, st, ls, result>>
    /\ UNCHANGED <<factory_address, chain, last_contract>>

\* contract_addresses = factory.functions.getContractsByInitiator(...).call();
\* a failure here reaches the outer except, which logs and returns [].
ReadIndex ==
    /\ pc = "getContractsByInitiator"
    /\ LET o == Called(op, "getContractsByInitiator")
       IN  \/ list_continue(o, [ls EXCEPT !.contract_addresses =
                    getContractsByInitiator(ls.user_address)])
           \/ Done([NoResult EXCEPT
                       !.kind = "list", !.outcome = "ok", !.trace = o.trace,
                       !.step = "getContractsByInitiator",
                       !.cause = "network"])
    /\ UNCHANGED <<factory_address, chain, last_contract>>

\* contract_info = factory.functions.getContractInfo(address).call(), then
\* the call of get_contract_status(address).
ReadContractInfo ==
    /\ pc = "getContractInfo"
    /\ LET o == Called(op, "getContractInfo")
       IN  \/ /\ pc' = "getSignatures"
              /\ op' = o
              /\ st' = [NoSt EXCEPT
                    !.caller = "list",
                    !.contract_address = ls.contract_addresses[ls.i]]
              /\ UNCHANGED <<ls, result>>
           \/ on_enrich_error(o)
    /\ UNCHANGED <<factory_address, chain, last_contract>>

SwitchPageError == "Could not find page: tab3"

\* The "View Details" button of a listed contract in tab4: the address is
\* remembered in st.session_state.last_contract, then st.switch_page("tab3")
\* either leaves the page or raises, which tab4's except shows. The button
\* sits inside the block of the "Load My Contracts" button; a click is taken
\* here to run its body whenever a listing with that contract is shown.
ViewDetails ==
    /\ pc = "idle"
    /\ result.kind = "list"
    /\ \E i \in DOMAIN result.value :
          LET contract == result.value[i]
          IN  /\ last_contract' = contract.address
              /\ \E outcome \in {"ok", "error"} :
                    result' = [NoResult EXCEPT
                       !.kind = "view", !.outcome = outcome,
                       !.value = <<contract.address>>,
                       !.error = IF outcome = "error"
                                 THEN SwitchPageError ELSE ""]
    /\ UNCHANGED <<factory_address, chain, pc, op, st, ls>>

Init ==
    /\ factory_address \in {FactoryAddress, NoFactory}
    /\ chain_txs = <<>>
    /\ receipts = <<>>
    /\ contracts = <<>>
    /\ pc = "idle"
    /\ op = NoOp
    /\ st = NoSt
    /\ ls = NoLs
    /\ result = NoResult
    /\ last_contract = 0

Next ==
    \/ \E t \in TxHashes : Mine(t)
    \/ CreateClick
    \/ SignClick
    \/ CheckConfig
    \/ FromKey
    \/ GetNonce
    \/ BuildTransaction
    \/ SignTransaction
    \/ SendRawTransaction
    \/ WaitForReceipt
    \/ DecodeLogs
    \/ StatusClick
    \/ ReadSignatures
    \/ ReadIsFullySigned
    \/ ReadRequiredSigners
    \/ ReadSigningProgress
    \/ ReadStatus
    \/ ReadDocumentHash
    \/ ReadIpfsCid
    \/ ListClick
    \/ ListConfig
    \/ ReadIndex
    \/ ReadContractInfo
    \/ ViewDetails

Spec == Init /\ [][Next]_vars

(* -------- the signer-list computation over longer signer forms -------- *)

CreateClickTyped == CreateClickFrom(SeqsUpTo(TypedEntries, MaxTyped))

NextSigners == CreateClickTyped \/ CheckConfig

SpecSigners == Init /\ [][NextSigners]_vars

(* ------------- the creation-event scan over any receipt --------------- *)

LogEntries == {OtherLog, TransferLog} \cup {ContractCreated(c) : c \in 1..2}

\* create_signing_contract of user A holds the receipt of its mined
\* transaction, with any log list, and is about to scan it.
InitDecode ==
    /\ factory_address = FactoryAddress
    /\ \E logs \in SeqsUpTo(LogEntries, MaxLogs) :
          LET o == [NoOp EXCEPT
                      !.kind = "create", !.private_key = "A",
                      !.signers = <<Spaces>>,
                      !.required_signers = <<AddressOf("A")>>,
                      !.tx_hash = 1, !.sends = 1,
                      !.trace = <<"from_key", "get_transaction_count",
                                  "build_transaction", "sign_transaction",
                                  "send_raw_transaction",
                                  "wait_for_transaction_receipt">>]
          IN  /\ chain_txs = <<txn(o)>>
              /\ receipts = <<Receipt(1, logs)>>
              /\ contracts = <<new_contract(txn(o))>>
              /\ op = o
    /\ pc = "decode"
    /\ st = NoSt
    /\ ls = NoLs
    /\ result = NoResult
    /\ last_contract = 0

NextDecode == DecodeLogs

SpecDecode == InitDecode /\ [][NextDecode]_vars

(* --------------- the listing over a longer factory index -------------- *)

\* The chain after the users of initiators created one contract each, in
\* that order, all mined.
created_by(initiators) ==
    [i \in 1..Len(initiators) |->
        [from |-> initiators[i],
         nonce |-> Cardinality({j \in 1..(i - 1) : initiators[j] = initiators[i]}),
         kind |-> "create", to |-> 0,
         required |-> <<AddressOf(initiators[i])>>]]

InitList ==
    /\ factory_address \in {FactoryAddress, NoFactory}
    /\ \E initiators \in SeqsUpTo(Users, MaxIndex) :
          /\ chain_txs = created_by(initiators)
          /\ receipts = [i \in 1..Len(initiators) |->
                Receipt(1, <<OtherLog, ContractCreated(i)>>)]
          /\ contracts = [i \in 1..Len(initiators) |->
                new_contract(created_by(initiators)[i])]
    /\ pc = "idle"
    /\ op = NoOp
    /\ st = NoSt
    /\ ls = NoLs
    /\ result = NoResult
    /\ last_contract = 0

NextList ==
    \/ ListClick
    \/ ListConfig
    \/ ReadIndex
    \/ ReadContractInfo
    \/ ReadSignatures
    \/ ReadIsFullySigned
    \/ ReadRequiredSigners
    \/ ReadSigningProgress
    \/ ReadStatus
    \/ ReadDocumentHash
    \/ ReadIpfsCid

SpecList == InitList /\ [][NextList]_vars

(* ------------- the status mapping over any lifecycle code ------------- *)

\* The chain holds one signer contract, created by user A, that reports
\* some lifecycle code.
InitStatus ==
    /\ factory_address \in {FactoryAddress, NoFactory}
    /\ \E code \in 0..MaxCode :
          /\ chain_txs = created_by(<<"A">>)
          /\ receipts = <<Receipt(1, <<OtherLog, ContractCreated(1)>>)>>
          /\ contracts =
                <<[new_contract(created_by(<<"A">>)[1]) EXCEPT !.status = code]>>
    /\ pc = "idle"
    /\ op = NoOp
    /\ st = NoSt
    /\ ls = NoLs
    /\ result = NoResult
    /\ last_contract = 0

NextStatus ==
    \/ StatusClick
    \/ ReadSignatures
    \/ ReadIsFullySigned
    \/ ReadRequiredSigners
    \/ ReadSigningProgress
    \/ ReadStatus
    \/ ReadDocumentHash
    \/ ReadIpfsCid

SpecStatus == InitStatus /\ [][NextStatus]_vars

(* ------------------------------ properties ---------------------------- *)

TxKinds == {"create", "sign"}

\* The calls of a transaction operation, in the order of the source.
PipelineOrder ==
    <<"from_key", "get_transaction_count", "build_transaction",
      "sign_transaction", "send_raw_transaction",
      "wait_for_transaction_receipt", "processLog">>

Sends(trace) == Cardinality(Occurrences(trace, "send_raw_transaction"))

Finished(kinds) == pc = "idle" /\ result.kind \in kinds

\* C1: create_signing_contract and sign_document make their calls in the
\* order build, sign, broadcast, wait for the receipt, and fail closed: when
\* deriving the account from the key or signing the built transaction
\* fails, the operation ends in an error and send_raw_transaction was never
\* called for it.
C1_FailClosedInOrder ==
    /\ op.kind \in TxKinds =>
          /\ IsPrefix(op.trace, PipelineOrder)
          /\ op.sends = Sends(op.trace)
    /\ Finished(TxKinds) =>
          /\ IsPrefix(result.trace, PipelineOrder)
          /\ result.sends = Sends(result.trace)
          /\ result.cause \in {"key", "signing"} =>
                /\ result.outcome = "error"
                /\ result.sends = 0
                /\ Sends(result.trace) = 0

\* A sign-document operation whose signing failed: it ended in the signing
\* error, after the build and before any broadcast.
C1_Witness ==
    /\ Finished({"sign"})
    /\ result.cause = "signing"
    /\ result.error = SigningError
    /\ result.trace = SubSeq(PipelineOrder, 1, 4)

\* C2: whatever the outcome of a create-contract or sign-document operation
\* (confirmed, timed out, error while broadcasting or while waiting), its
\* signed transaction is submitted to the chain at most once.
C2_SubmittedAtMostOnce ==
    /\ op.kind \in TxKinds => op.sends <= 1 /\ op.sends = Sends(op.trace)
    /\ Finished(TxKinds) =>
          result.sends <= 1 /\ result.sends = Sends(result.trace)

\* An operation whose broadcast ended in a connection error after the node
\* had taken the transaction: it was sent once and is pending.
C2_Witness ==
    /\ Finished({"sign"})
    /\ result.step = "send_raw_transaction"
    /\ result.cause = "network"
    /\ result.sends = 1
    /\ Pending # {}

\* C3: every snapshot get_contract_status returns has signed_count equal to
\* the number of its signatures, signed_count at most total_signers, and
\* is_fully_signed exactly when the two are equal, also when a signing
\* transaction of the contract is mined between two of its getter calls.
C3_SnapshotConsistent ==
    Finished({"status"}) /\ result.outcome = "ok" =>
        LET s == result.value[1]
        IN  /\ s.signed_count = Len(s.signatures)
            /\ s.signed_count <= s.total_signers
            /\ s.is_fully_signed <=> (s.signed_count = s.total_signers)

FirstMatch(logs) ==
    LET M == {i \in 1..Len(logs) : logs[i].event = "ContractCreated"}
    IN  IF M = {} THEN 0 ELSE CHOOSE i \in M : \A j \in M : i <= j

\* C4: the scan of a confirmed receipt's logs returns the contract address
\* of the first log that decodes as ContractCreated, skipping every log
\* before it, and raises the not-found error exactly when no log of the
\* receipt decodes (an empty log list included).
C4_FirstCreationLog ==
    Finished({"create"}) /\ result.step \in {"", "processLog"} =>
        LET logs == receipts[result.tx_hash].logs
        IN  IF FirstMatch(logs) = 0
            THEN result.outcome = "error" /\ result.error = NotFound
            ELSE /\ result.outcome = "ok"
                 /\ result.value = <<logs[FirstMatch(logs)].contractAddress>>

\* A receipt with an unrelated log, then two creation logs of different
\* addresses: the address of the first creation log was returned.
C4_Witness ==
    /\ Finished({"create"})
    /\ result.outcome = "ok"
    /\ LET logs == receipts[result.tx_hash].logs
       IN  /\ Len(logs) = 3
           /\ logs[1] = OtherLog
           /\ logs[2] = ContractCreated(2)
           /\ logs[3] = ContractCreated(1)
           /\ result.value = <<2>>

\* First occurrences of a list of typed addresses, compared as 20-byte values.
RECURSIVE first_by_bytes(_, _)
first_by_bytes(xs, seen) ==
    IF xs = <<>> THEN <<>>
    ELSE IF Head(xs).who \in seen THEN first_by_bytes(Tail(xs), seen)
    ELSE <<Head(xs).who>> \o first_by_bytes(Tail(xs), seen \cup {Head(xs).who})

\* C5: the signer list passed to contract creation holds no address twice,
\* keeps the first-occurrence order of the input and holds the initiator's
\* address exactly once, typed in or not, where addresses are compared as
\* case-insensitive 20-byte values.
C5_SignersDeduplicated ==
    pc = "config" /\ op.kind = "create" =>
        LET r == op.required_signers
            initiator == AddressOf(op.private_key)
        IN  /\ \A i, j \in 1..Len(r) : r[i].who = r[j].who => i = j
            /\ Cardinality({i \in 1..Len(r) : r[i].who = initiator.who}) = 1
            /\ [i \in 1..Len(r) |-> r[i].who] =
                   first_by_bytes(<<initiator>> \o NonBlank(op.signers), {})

\* C6: a broadcast operation ends in exactly one of CONFIRMED, TIMED_OUT and
\* REVERTED, which the caller can tell apart: an operation reported as
\* successful has a receipt of a transaction that did not revert.
C6_RevertNotSuccess ==
    Finished(TxKinds) /\ result.sends > 0 =>
        /\ result.outcome \in {"ok", "error"}
        /\ result.outcome = "ok" =>
              /\ result.tx_hash \in DOMAIN receipts
              /\ receipts[result.tx_hash].status = 1

\* What the caller is shown when the connection fails during the broadcast.
BroadcastErrorShown == reraise(ConnectionError)

\* C7: a network error during the broadcast is shown to the caller as an
\* error of its own, one that is shown neither for a clean rejection by the
\* node nor for an error before the broadcast or during the receipt wait.
C7_BroadcastErrorDistinct ==
    Finished(TxKinds) /\ result.outcome = "error"
                      /\ result.error = BroadcastErrorShown =>
        result.step = "send_raw_transaction" /\ result.cause = "network"

Addresses(entries) == [i \in 1..Len(entries) |-> entries[i].address]

Range(f) == {f[i] : i \in DOMAIN f}

\* C8: with the factory's index of the initiator read, get_user_contracts
\* returns exactly the entries of the addresses whose enrichment succeeded,
\* in index order, each with the status read from its contract; an address
\* whose enrichment failed is logged and skipped and costs no other entry.
C8_ListingSkipsOnlyFailures ==
    Finished({"list"}) /\ factory_configured /\ result.cause = "" =>
        /\ result.outcome = "ok"
        /\ \E u \in Users : result.index = getContractsByInitiator(u)
        /\ Range(result.logged) \subseteq Range(result.index)
        /\ Addresses(result.value) =
               SelectSeq(result.index,
                         LAMBDA a : a \notin Range(result.logged))
        /\ \A i \in 1..Len(result.value) :
              LET e == result.value[i]
              IN  /\ e.status = status_name(contracts[e.address].status)
                  /\ e.progress = getSigningProgress(e.address)

\* An index of three addresses, the enrichment of the second failed: the
\* first and the third are returned, the second is logged.
C8_Witness ==
    /\ Finished({"list"})
    /\ Len(result.index) = 3
    /\ result.logged = <<result.index[2]>>
    /\ Addresses(result.value) = <<result.index[1], result.index[3]>>

\* C9: a receipt wait that expires ends the operation in the timeout error
\* with the transaction submitted once and left with the node; a status
\* query issued afterwards does not depend on that operation: it fails only
\* when a getter call fails, and its snapshot holds what the contract held
\* at the reads, the signature of the abandoned transaction included once
\* that has been mined.
C9_TimeoutThenRequery ==
    /\ Finished(TxKinds) /\ result.cause = "timeout" =>
          /\ result.outcome = "error"
          /\ result.error = TimeExhausted
          /\ result.sends = 1
          /\ result.tx_hash \in TxHashes
          /\ Len(chain_txs) <= MaxTx
    /\ Finished({"status"}) /\ result.after_timeout_of # 0 =>
          /\ result.sends = 0
          /\ result.outcome = "error" =>
                result.cause \in {"network", "no contract"}
          /\ result.outcome = "ok" =>
                LET s == result.value[1]
                    c == result.contract_address
                IN  /\ IsPrefix(s.signatures, getSignatures(c))
                    /\ s.signed_count <= Len(getSignatures(c))
                    /\ s.required_signers = getRequiredSigners(c)

\* A sign-document operation gave up its receipt wait, its transaction was
\* mined afterwards, and the status query that followed shows the signature.
C9_Witness ==
    /\ Finished({"status"})
    /\ result.outcome = "ok"
    /\ result.after_timeout_of \in DOMAIN receipts
    /\ chain_txs[result.after_timeout_of].kind = "sign"
    /\ chain_txs[result.after_timeout_of].to = result.contract_address
    /\ receipts[result.after_timeout_of].status = 1
    /\ result.value[1].signed_count = 1
    /\ result.value[1].signatures = <<chain_txs[result.after_timeout_of].from>>

\* C10: with no factory address configured, create_signing_contract ends in
\* the configuration error before any call of the transaction pipeline (no
\* key derivation, nonce lookup, signing or broadcast), and
\* get_user_contracts returns the empty list without a chain call; both
\* leave the session idle.
C10_NoFactoryDegrades ==
    factory_address = NoFactory =>
        /\ op.kind \in {"create", "list"} => op.trace = <<>> /\ op.sends = 0
        /\ op.kind = "create" => pc = "config"
        /\ op.kind = "list" => pc = "list_config"
        /\ Finished({"create"}) /\ result.outcome = "error"
                                /\ result.step # "tab1" =>
              /\ result.error = ConfigError
              /\ result.trace = <<>>
              /\ result.sends = 0
        /\ Finished({"create"}) => result.outcome # "ok"
        /\ Finished({"list"}) =>
              /\ result.outcome = "ok"
              /\ result.value = <<>>
              /\ result.trace = <<>>
        /\ chain_txs = <<>>

\* A create attempt without a factory address ended in the configuration
\* error.
C10_Witness ==
    /\ factory_address = NoFactory
    /\ Finished({"create"})
    /\ result.error = ConfigError

\* The name the application documents for a lifecycle code.
lifecycle_name(code) ==
    CASE code = 0 -> "INITIATED"
      [] code = 1 -> "IN_PROGRESS"
      [] code = 2 -> "COMPLETED"
      [] code = 3 -> "CANCELLED"
      [] OTHER -> "UNKNOWN"

\* C11: get_contract_status maps the lifecycle code the contract reports to
\* INITIATED, IN_PROGRESS, COMPLETED, CANCELLED for the codes 0 to 3 and to
\* UNKNOWN for every other code, and the mapping raises for no code: a
\* status query fails only when a getter call fails.
C11_LifecycleMapping ==
    Finished({"status"}) =>
        /\ result.outcome = "ok" =>
              result.value[1].status =
                  lifecycle_name(contracts[result.contract_address].status)
        /\ result.outcome = "error" =>
              /\ result.error # IndexError
              /\ result.cause \in {"network", "no contract"}

\* A status query of a contract that reports code 7 returned UNKNOWN.
C11_Witness ==
    /\ Finished({"status"})
    /\ result.outcome = "ok"
    /\ contracts[result.contract_address].status = 7
    /\ result.value[1].status = "UNKNOWN"

\* A step in which create_signing_contract returned an address to tab1.
CreateReturned ==
    /\ pc = "decode"
    /\ result'.kind = "create"
    /\ result'.outcome = "ok"
    /\ last_contract' = result'.value[1]

\* A step in which the user picked View Details on a contract of the listing
\* on the page.
ViewPicked ==
    /\ pc = "idle"
    /\ result.kind = "list"
    /\ result'.kind = "view"
    /\ \E i \in DOMAIN result.value : last_contract' = result.value[i].address

\* A step that ends a create attempt without an address, at any of its steps.
CreateFailed ==
    /\ result' # result
    /\ result'.kind = "create"
    /\ result'.outcome \in {"error", "refused"}

\* A step of a sign, status or list operation.
OtherOperation ==
    \/ op.kind \in {"sign", "status", "list"}
    \/ op'.kind \in {"sign", "status", "list"}

\* C12: the session's last_contract changes only when
\* create_signing_contract returns an address or the user picks View Details
\* on a listed contract; a create attempt that fails at any step leaves it
\* unchanged, and no sign, status or list operation modifies it.
C12_LastContractFrame ==
    [][/\ last_contract' # last_contract => CreateReturned \/ ViewPicked
       /\ CreateFailed => last_contract' = last_contract
       /\ OtherOperation => last_contract' = last_contract]_vars

\* A create attempt found no creation event in its receipt, after an earlier
\* one had left its contract in last_contract.
C12_Witness ==
    /\ Finished({"create"})
    /\ result.outcome = "error"
    /\ result.cause = "no event"
    /\ last_contract # 0

====
